---- MODULE Spec2Model ----
(***************************************************************************)
(* SkyboxConverter.py: six cubemap face files are resolved by filename,    *)
(* converted where needed (VTF, EXR), loaded, sized, transformed per slot  *)
(* and pasted into a 4x3 atlas.  File names are sequences of characters,   *)
(* images are terms over the loaded rasters whose pixels PixelOf computes. *)
(***************************************************************************)
EXTENDS Integers, Sequences, FiniteSets, TLC

VARIABLES
    listing,              \* glob.glob(INPUT_DIRECTORY/*): file names, in listing order
    srcfiles,             \* files of INPUT_DIRECTORY: name -> [w, h, fmt] of its raster
    outfiles,             \* files of OUTPUT_DIR (temporary PNGs, the atlas): name -> image
    EXR_SUPPORT_ENABLED,  \* whether openexr_numpy was imported
    pc,                   \* position of the script
    file_map,             \* find_cubemap_files' result: face -> file name
    report,               \* what find_cubemap_files printed: missing faces, VMT errors
    order,                \* iteration order of the filenames_map dict
    idx,                  \* loop position (conversion loop, slot loop)
    png_paths_map,        \* face -> path of the image to load
    temp_files,           \* temporary files the run created, in creation order
    face_source_info,     \* face -> 'default' | 'exr'
    images,               \* face -> loaded RGBA image
    face_size,            \* (face_width, face_height)
    is_dome_map,
    base_unit_size,
    final_image,          \* the canvas being built
    pasted,               \* log of the slot loop: what went into each slot
    removed,              \* temporary files whose os.remove was attempted
    result,               \* how stitch_cubemap_rotated ended
    answers,              \* what the user answered to the prompts so far
    vmats                 \* material files written

vars == <<listing, srcfiles, outfiles, EXR_SUPPORT_ENABLED, pc, file_map, report,
          order, idx, png_paths_map, temp_files, face_source_info, images,
          face_size, is_dome_map, base_unit_size, final_image, pasted, removed,
          result, answers, vmats>>

(***************************************************************************)
(* Bounds of the model.                                                    *)
(***************************************************************************)
\* rasters have sides MIN_SIZE .. MIN_SIZE + MaxExtra (and their doubles)
MaxExtra == 1
\* a directory of loose files holds at most MaxFiles files
MaxFiles == 3
\* step 2b on its own is applied to squares of side 1 .. MaxSide
MaxSide == 4

(***************************************************************************)
(* Program constants.                                                      *)
(***************************************************************************)
MIN_SIZE == 64
\* side of a placeholder raster ("4x4 placeholders")
PlaceholderSide == 4

TARGET_SLOTS == <<"up", "left", "front", "right", "back", "down">>

NoFlip == "None"

EXR_TRANSFORMS ==
    [up    |-> <<"up", -90, NoFlip>>,
     down  |-> <<"down", -90, NoFlip>>,
     left  |-> <<"front", 0, NoFlip>>,
     front |-> <<"right", -90, NoFlip>>,
     right |-> <<"back", 180, NoFlip>>,
     back  |-> <<"left", 90, NoFlip>>]

\* a default table that maps every slot to the face of its own name
IdentityTransforms ==
    [up    |-> <<"up", 0, NoFlip>>,
     down  |-> <<"down", 0, NoFlip>>,
     left  |-> <<"left", 0, NoFlip>>,
     front |-> <<"front", 0, NoFlip>>,
     right |-> <<"right", 0, NoFlip>>,
     back  |-> <<"back", 0, NoFlip>>]

DEFAULT_TRANSFORMS ==
    [up    |-> <<"up", 0, NoFlip>>,
     down  |-> <<"down", 0, NoFlip>>,
     left  |-> <<"back", 0, NoFlip>>,
     front |-> <<"right", 0, NoFlip>>,
     right |-> <<"front", 0, NoFlip>>,
     back  |-> <<"left", 0, NoFlip>>]

HL2_TF2_DOME_TRANSFORMS ==
    [up    |-> <<"up", 0, NoFlip>>,
     down  |-> <<"down", 0, NoFlip>>,
     left  |-> <<"back", 0, NoFlip>>,
     front |-> <<"right", 0, NoFlip>>,
     right |-> <<"front", 0, NoFlip>>,
     back  |-> <<"left", 0, NoFlip>>]

(***************************************************************************)
(* Strings: sequences of one-character strings.                            *)
(***************************************************************************)
\* str.lower(), on the characters the file names use
Lower(s) ==
    [i \in 1..Len(s) |->
        CASE s[i] = "S" -> "s" [] s[i] = "U" -> "u" [] s[i] = "P" -> "p"
          [] s[i] = "N" -> "n" [] s[i] = "G" -> "g" [] OTHER -> s[i]]

\* str.endswith(suffix)
EndsWith(s, suffix) ==
    /\ Len(suffix) <= Len(s)
    /\ SubSeq(s, Len(s) - Len(suffix) + 1, Len(s)) = suffix

\* `sub in s`
Contains(s, sub) ==
    \E i \in 0..(Len(s) - Len(sub)) : SubSeq(s, i + 1, i + Len(sub)) = sub

\* os.path.splitext(name): <<root, ext>>, split at the last dot that is not leading
SplitExt(name) ==
    LET dots == {i \in 2..Len(name) : name[i] = "."}
    IN  IF dots = {} THEN <<name, <<>>>>
        ELSE LET d == CHOOSE i \in dots : \A j \in dots : j <= i
             IN  <<SubSeq(name, 1, d - 1), SubSeq(name, d, Len(name))>>

FACE_KEYWORDS ==
    [back  |-> << <<"b","a","c","k">>, <<"b","k">> >>,
     up    |-> << <<"u","p">>, <<"t","o","p">> >>,
     front |-> << <<"f","r","o","n","t">>, <<"f","t">> >>,
     right |-> << <<"r","i","g","h","t">>, <<"r","t">> >>,
     left  |-> << <<"l","e","f","t">>, <<"l","f">> >>,
     down  |-> << <<"d","o","w","n">>, <<"d","n">> >>]

REQUIRED_FACES == DOMAIN FACE_KEYWORDS

ExtVtf == <<".","v","t","f">>
ExtPng == <<".","p","n","g">>
ExtJpg == <<".","j","p","g">>
ExtJpeg == <<".","j","p","e","g">>
ExtTga == <<".","t","g","a">>
ExtHdr == <<".","h","d","r">>
ExtExr == <<".","e","x","r">>
ExtVmt == <<".","v","m","t">>
ExtTxt == <<".","t","x","t">>

IMAGE_EXTENSIONS == <<ExtVtf, ExtPng, ExtJpg, ExtJpeg, ExtTga, ExtHdr, ExtExr>>
VMT_EXTENSION == <<ExtVmt>>
ALL_EXTENSIONS == IMAGE_EXTENSIONS \o VMT_EXTENSION

\* str.endswith(tuple of suffixes)
EndsWithAny(s, suffixes) == \E i \in 1..Len(suffixes) : EndsWith(s, suffixes[i])

\* target_files: the listed files that end with a known extension, in listing order
TargetFiles(all_files) ==
    SelectSeq(all_files, LAMBDA f : EndsWithAny(Lower(f), ALL_EXTENSIONS))

\* the keyword tests of the innermost loop on one lower-cased file name: some keyword
\* occurs in it, and the name before the extension ends with some keyword
KeywordMatch(face_name, fname_lower) ==
    LET keywords == FACE_KEYWORDS[face_name]
        name_no_ext == SplitExt(fname_lower)[1]
    IN  /\ \E k \in 1..Len(keywords) : Contains(fname_lower, keywords[k])
        /\ \E k \in 1..Len(keywords) : EndsWith(name_no_ext, keywords[k])

\* the loops nested the other way round: the first matching file of the listing,
\* whatever its extension
FindFaceListingFirst(face_name, target_files) ==
    LET lowered == [i \in 1..Len(target_files) |-> Lower(target_files[i])]
        hits == {i \in 1..Len(target_files) :
                    /\ KeywordMatch(face_name, lowered[i])
                    /\ EndsWithAny(lowered[i], IMAGE_EXTENSIONS)}
    IN  IF hits = {} THEN <<>>
        ELSE target_files[CHOOSE x \in hits : \A z \in hits : x <= z]

\* the loops over IMAGE_EXTENSIONS and target_files for one face: the first extension,
\* in order, that some matching file ends with, and for it the first such file of the
\* listing; <<>> when no file matches
FindFace(face_name, target_files) ==
    LET lowered == [i \in 1..Len(target_files) |-> Lower(target_files[i])]
        named == {i \in 1..Len(target_files) : KeywordMatch(face_name, lowered[i])}
        hit == [e \in 1..Len(IMAGE_EXTENSIONS) |->
                   {i \in named : EndsWith(lowered[i], IMAGE_EXTENSIONS[e])}]
        exts == {e \in 1..Len(IMAGE_EXTENSIONS) : hit[e] # {}}
    IN  IF exts = {} THEN <<>>
        ELSE LET e == CHOOSE x \in exts : \A z \in exts : x <= z
                 i == CHOOSE x \in hit[e] : \A z \in hit[e] : x <= z
             IN  target_files[i]

\* the VMT check, made for a face that no image file matched: a .vmt file with one of
\* the face's keywords in its name
VmtError(face_name, target_files) ==
    \E i \in 1..Len(target_files) :
        /\ EndsWithAny(Lower(target_files[i]), VMT_EXTENSION)
        /\ \E k \in 1..Len(FACE_KEYWORDS[face_name]) :
              Contains(Lower(target_files[i]), FACE_KEYWORDS[face_name][k])

\* found_files, restricted to the faces found
FindCubemapFiles(all_files) ==
    LET target_files == TargetFiles(all_files)
        found_files == [f \in REQUIRED_FACES |-> FindFace(f, target_files)]
        valid_faces == {f \in REQUIRED_FACES : found_files[f] # <<>>}
    IN  [f \in valid_faces |-> found_files[f]]

(***************************************************************************)
(* determine_skybox_prefix and the output path.                            *)
(***************************************************************************)
\* sorted(KEYWORDS, key=len, reverse=True): a stable sort
SORTED_KEYWORDS ==
    << <<"f","r","o","n","t">>, <<"r","i","g","h","t">>, <<"d","o","w","n">>,
       <<"b","a","c","k">>, <<"l","e","f","t">>, <<"t","o","p">>, <<"u","p">>,
       <<"d","n">>, <<"b","k">>, <<"f","t">>, <<"l","f">>, <<"r","t">> >>

\* str.rstrip('_-')
RECURSIVE RStrip(_)
RStrip(s) ==
    IF s # <<>> /\ s[Len(s)] \in {"_", "-"} THEN RStrip(SubSeq(s, 1, Len(s) - 1)) ELSE s

\* the prefix one file name contributes
FilePrefix(filename) ==
    LET name_no_ext == Lower(SplitExt(filename)[1])
        hits == {k \in 1..Len(SORTED_KEYWORDS) : EndsWith(name_no_ext, SORTED_KEYWORDS[k])}
    IN  IF hits = {} THEN name_no_ext
        ELSE LET k == CHOOSE x \in hits : \A z \in hits : x <= z
                 temp_prefix == SubSeq(name_no_ext, 1,
                                       Len(name_no_ext) - Len(SORTED_KEYWORDS[k]))
                 prefix == RStrip(temp_prefix)
             IN  IF prefix = <<>> THEN name_no_ext ELSE prefix

DefaultSkybox == <<"d","e","f","a","u","l","t","_","s","k","y","b","o","x">>

\* min(prefixes, key=len) over the map's files in dict order: the first shortest one
DetermineSkyboxPrefix(filenames_map, dict_order) ==
    IF dict_order = <<>> THEN DefaultSkybox
    ELSE LET prefixes == [i \in 1..Len(dict_order) |-> FilePrefix(filenames_map[dict_order[i]])]
             best == CHOOSE i \in 1..Len(prefixes) :
                        /\ \A j \in 1..Len(prefixes) : Len(prefixes[i]) <= Len(prefixes[j])
                        /\ \A j \in 1..(i - 1) : Len(prefixes[j]) > Len(prefixes[i])
         IN  prefixes[best]

\* the file name of FINAL_OUTPUT_PATH inside OUTPUT_DIR
FinalOutputName(filenames_map, dict_order) ==
    DetermineSkyboxPrefix(filenames_map, dict_order) \o ExtPng

TempSuffix ==
    <<".","t","e","m","p","_","c","o","n","v","e","r","t","e","d",".","p","n","g">>

\* the file name of a converted face inside temp_dir
TempName(path) == SplitExt(path)[1] \o TempSuffix

(***************************************************************************)
(* Images.  An image is a term: a loaded raster, a solid colour, a resize, *)
(* a paste, a rotation or a transposition; PixelOf gives its pixels.       *)
(***************************************************************************)
NoImage == [kind |-> "none", w |-> 0, h |-> 0]

\* Image.open(path).convert("RGBA") of a file holding the raster of source file src
Raster(src, w, h) == [kind |-> "raster", w |-> w, h |-> h, src |-> src]

\* Image.new('RGBA', (w, h), color): "black" is (0,0,0,255), "clear" is (0,0,0,0)
Solid(w, h, color) == [kind |-> "solid", w |-> w, h |-> h, color |-> color]

\* Image.resize((w, h), LANCZOS): a copy when the size does not change
Resize(img, w, h) ==
    IF img.w = w /\ img.h = h THEN img
    ELSE [kind |-> "resized", w |-> w, h |-> h, of |-> img]

\* base.paste(top, (x, y)), no mask: top's pixels replace base's
PasteOnto(base, top, x, y) ==
    [kind |-> "paste", w |-> base.w, h |-> base.h, base |-> base, top |-> top,
     x |-> x, y |-> y]

\* Image.rotate(degrees, expand=False): degrees counter-clockwise, taken mod 360
Rotate(img, degrees) ==
    [kind |-> "rot", w |-> img.w, h |-> img.h, of |-> img, deg |-> degrees % 360]

\* a transposition in which ROTATE_180 only mirrors left to right
TransposeMirrorOnly(img, flip) ==
    [kind |-> "flip", w |-> img.w, h |-> img.h, of |-> img,
     flip |-> IF flip = "ROTATE_180" THEN "FLIP_LEFT_RIGHT" ELSE flip]

\* Image.transpose(flip)
Transpose(img, flip) ==
    [kind |-> "flip", w |-> img.w, h |-> img.h, of |-> img, flip |-> flip]

BlackPixel == [tag |-> "black", src |-> <<>>, x |-> 0, y |-> 0]
ClearPixel == [tag |-> "clear", src |-> <<>>, x |-> 0, y |-> 0]
\* pixel (x, y) of the raster of source file src
SourcePixel(src, x, y) == [tag |-> "source", src |-> src, x |-> x, y |-> y]
\* pixel (x, y) of the raster of src after resampling to another size
ResampledPixel(src, x, y) == [tag |-> "lanczos", src |-> src, x |-> x, y |-> y]

RECURSIVE PixelOf(_, _, _)
PixelOf(img, x, y) ==
    IF img.kind = "paste"
    THEN IF /\ img.x <= x /\ x < img.x + img.top.w
            /\ img.y <= y /\ y < img.y + img.top.h
         THEN PixelOf(img.top, x - img.x, y - img.y)
         ELSE PixelOf(img.base, x, y)
    ELSE CASE img.kind = "raster" -> SourcePixel(img.src, x, y)
           [] img.kind = "solid" -> IF img.color = "black" THEN BlackPixel ELSE ClearPixel
           [] img.kind = "resized" -> ResampledPixel(img.of.src, x, y)
           [] img.kind = "rot" ->
                 (CASE img.deg = 0 -> PixelOf(img.of, x, y)
                    [] img.deg = 90 -> PixelOf(img.of, img.w - 1 - y, x)
                    [] img.deg = 180 -> PixelOf(img.of, img.w - 1 - x, img.h - 1 - y)
                    [] img.deg = 270 -> PixelOf(img.of, y, img.h - 1 - x))
           [] img.kind = "flip" ->
                 (CASE img.flip = "FLIP_LEFT_RIGHT" -> PixelOf(img.of, img.w - 1 - x, y)
                    [] img.flip = "FLIP_TOP_BOTTOM" -> PixelOf(img.of, x, img.h - 1 - y)
                    [] img.flip = "ROTATE_180" ->
                          PixelOf(img.of, img.w - 1 - x, img.h - 1 - y))

(***************************************************************************)
(* The directories and rasters the runs start from.                        *)
(***************************************************************************)
Range(s) == {s[i] : i \in 1..Len(s)}

\* dict[k] = v
Put(f, k, v) == [x \in (DOMAIN f) \cup {k} |-> IF x = k THEN v ELSE f[x]]

\* the faces in the order FACE_KEYWORDS lists them, and the reverse
FaceOrder == <<"back", "up", "front", "right", "left", "down">>
Reverse(s) == [i \in 1..Len(s) |-> s[Len(s) + 1 - i]]

\* a face file named after the two-letter keyword of its face, as in sky_up, sky_dn
ShortKeyword(face) ==
    LET ks == FACE_KEYWORDS[face]
    IN  ks[CHOOSE k \in 1..Len(ks) : Len(ks[k]) = 2]
FaceFile(face, ext) == <<"s", "_">> \o ShortKeyword(face) \o ext

ValidSides == MIN_SIZE..(MIN_SIZE + MaxExtra)
SquareSizes == {<<s, s>> : s \in ValidSides}
DomeSizes == {<<2 * s, s>> : s \in ValidSides}
PlaceholderSizes ==
    {<<PlaceholderSide, PlaceholderSide>>, <<MIN_SIZE, PlaceholderSide>>,
     <<PlaceholderSide, MIN_SIZE>>}
\* sizes all six faces may share
UniformSizes == SquareSizes \cup DomeSizes \cup {<<PlaceholderSide, PlaceholderSide>>}
\* sizes of the faces that differ from the rest
OddSizes ==
    PlaceholderSizes \cup {<<2 * MIN_SIZE, MIN_SIZE>>,
                           <<MIN_SIZE + MaxExtra, MIN_SIZE + MaxExtra>>}

\* six faces of one format
OneFormat(ext) == [f \in REQUIRED_FACES |-> ext]

\* six faces of one format, but for one face: an EXR, HDR or VTF face among PNG
\* faces, an EXR face among VTF faces, a PNG face among EXR faces
FormatPatterns ==
    {OneFormat(ExtPng), OneFormat(ExtVtf), OneFormat(ExtExr)}
    \cup {[OneFormat(ExtPng) EXCEPT ![f] = ExtExr] : f \in REQUIRED_FACES}
    \cup {[OneFormat(ExtPng) EXCEPT !["front"] = ExtHdr],
          [OneFormat(ExtPng) EXCEPT !["front"] = ExtVtf]}
    \cup {[OneFormat(ExtVtf) EXCEPT ![f] = ExtExr] : f \in REQUIRED_FACES}
    \cup {[OneFormat(ExtExr) EXCEPT ![f] = ExtPng] : f \in REQUIRED_FACES}

\* six faces of one size
OneSize(sz) == [f \in REQUIRED_FACES |-> sz]

\* six faces of one size, but for the front face and one other face
MixedPatterns ==
    {[f \in REQUIRED_FACES |-> IF f = "front" THEN s1 ELSE IF f = odd THEN s2 ELSE b] :
        b \in {<<MIN_SIZE, MIN_SIZE>>, <<2 * MIN_SIZE, MIN_SIZE>>},
        s1 \in OddSizes \cup {<<MIN_SIZE, MIN_SIZE>>},
        odd \in REQUIRED_FACES \ {"front"}, s2 \in OddSizes}

\* six placeholders: the front face and one other face narrow or flat, the rest small
PlaceholderPatterns ==
    {[f \in REQUIRED_FACES |->
         IF f = "front" THEN s1 ELSE IF f = odd THEN s2
         ELSE <<PlaceholderSide, PlaceholderSide>>] :
        s1 \in PlaceholderSizes, odd \in {"up", "left"}, s2 \in PlaceholderSizes}

\* sizes whose ratio is on or beside a bound of the ratio tests: 0.5, 1.9, 2.1, and
\* with MIN_SIZE = 64 about 1.09 and 1.11
RatioSizes ==
    {<<MIN_SIZE, 2 * MIN_SIZE>>, <<133, 70>>, <<147, 70>>,
     <<MIN_SIZE + 6, MIN_SIZE>>, <<MIN_SIZE + 7, MIN_SIZE>>}

\* five faces of 64 x 64 and a front face, or with a placeholder front an up face,
\* of such a size
RatioPatterns ==
    {[OneSize(<<MIN_SIZE, MIN_SIZE>>) EXCEPT !["front"] = sz] : sz \in RatioSizes}
    \cup {[OneSize(<<MIN_SIZE, MIN_SIZE>>) EXCEPT
               !["front"] = <<PlaceholderSide, PlaceholderSide>>, !["up"] = sz] :
            sz \in RatioSizes}

\* complete sets of six face files: which formats, which sizes, whether EXR support
\* was imported, in which order the returned dict iterates
SixFaceRuns ==
    {[exts |-> fp, sizes |-> OneSize(sz), exr |-> TRUE, hash |-> FaceOrder] :
        fp \in FormatPatterns, sz \in {<<MIN_SIZE, MIN_SIZE>>, <<2 * MIN_SIZE, MIN_SIZE>>}}
    \cup
    {[exts |-> OneFormat(e), sizes |-> OneSize(sz), exr |-> TRUE, hash |-> FaceOrder] :
        e \in {ExtPng, ExtExr}, sz \in UniformSizes}
    \cup
    {[exts |-> fp, sizes |-> OneSize(<<MIN_SIZE, MIN_SIZE>>), exr |-> x, hash |-> o] :
        fp \in {p \in FormatPatterns : \E f \in REQUIRED_FACES : p[f] = ExtExr},
        x \in BOOLEAN, o \in {FaceOrder, Reverse(FaceOrder)}}
    \cup
    {[exts |-> OneFormat(ExtPng), sizes |-> sp, exr |-> TRUE, hash |-> FaceOrder] :
        sp \in MixedPatterns \cup PlaceholderPatterns \cup RatioPatterns}

\* loose files a directory may hold
FilePool ==
    { <<"s","_","u","p">> \o ExtPng, <<"s","_","u","p">> \o ExtVtf,
      <<"s","_","u","p">> \o ExtJpeg, <<"s","_","t","o","p">> \o ExtPng,
      <<"S","_","U","P",".","P","N","G">>, <<"s","_","l","e","f","t">> \o ExtPng,
      <<"s","_","f","r","o","n","t">> \o ExtPng, <<"s","_","u","p">> \o ExtVmt,
      <<"s","_","u","p","x">> \o ExtTxt }

\* the listings of at most n distinct files of the pool, in every order
RECURSIVE Listings(_)
Listings(n) ==
    IF n = 0 THEN {<<>>}
    ELSE LET shorter == Listings(n - 1)
         IN  shorter \cup {Append(l, f) : l \in {x \in shorter : Len(x) = n - 1},
                                          f \in FilePool}

LooseListings == {l \in Listings(MaxFiles) : Cardinality(Range(l)) = Len(l)}

EmptyMap == [x \in {} |-> 0]

InitLocals ==
    /\ pc = "start"
    /\ file_map = EmptyMap
    /\ report = [missing |-> {}, vmt |-> {}]
    /\ idx = 0
    /\ png_paths_map = EmptyMap
    /\ temp_files = <<>>
    /\ face_source_info = EmptyMap
    /\ images = EmptyMap
    /\ face_size = <<0, 0>>
    /\ is_dome_map = FALSE
    /\ base_unit_size = 0
    /\ final_image = NoImage
    /\ pasted = EmptyMap
    /\ removed = {}
    /\ result = "none"
    /\ answers = <<>>
    /\ vmats = {}
    /\ outfiles = EmptyMap

\* six face files
InitSixFaces ==
    \E run \in SixFaceRuns :
        /\ listing = [i \in 1..6 |-> FaceFile(FaceOrder[i], run.exts[FaceOrder[i]])]
        /\ srcfiles = [n \in {FaceFile(f, run.exts[f]) : f \in REQUIRED_FACES} |->
                         LET f == CHOOSE g \in REQUIRED_FACES : FaceFile(g, run.exts[g]) = n
                         IN  [w |-> run.sizes[f][1], h |-> run.sizes[f][2]]]
        /\ EXR_SUPPORT_ENABLED = run.exr
        /\ order = run.hash

\* five face files: one face is missing
InitFiveFaces ==
    \E miss \in REQUIRED_FACES :
        /\ listing = SelectSeq([i \in 1..6 |-> FaceFile(FaceOrder[i], ExtPng)],
                               LAMBDA n : n # FaceFile(miss, ExtPng))
        /\ srcfiles = [n \in {FaceFile(f, ExtPng) : f \in REQUIRED_FACES \ {miss}} |->
                         [w |-> MIN_SIZE, h |-> MIN_SIZE]]
        /\ EXR_SUPPORT_ENABLED = TRUE
        /\ order = FaceOrder

\* a few loose files, in any listing order
InitLoose ==
    \E l \in LooseListings :
        /\ listing = l
        /\ srcfiles = [n \in Range(l) |-> [w |-> MIN_SIZE, h |-> MIN_SIZE]]
        /\ EXR_SUPPORT_ENABLED = TRUE
        /\ order = FaceOrder

Init == InitLocals /\ (InitSixFaces \/ InitFiveFaces \/ InitLoose)


(***************************************************************************)
(* __main__, step 1: find_cubemap_files(INPUT_DIRECTORY).                  *)
(***************************************************************************)
Find ==
    /\ pc = "start"
    /\ file_map' = FindCubemapFiles(listing)
    /\ report' = [missing |-> REQUIRED_FACES \ DOMAIN file_map',
                  vmt |-> {f \in REQUIRED_FACES \ DOMAIN file_map' :
                              VmtError(f, TargetFiles(listing))}]
    /\ order' = SelectSeq(order, LAMBDA f : f \in DOMAIN file_map')
    /\ pc' = "stitch"
    /\ UNCHANGED <<listing, srcfiles, outfiles, EXR_SUPPORT_ENABLED, idx, png_paths_map,
                   temp_files, face_source_info, images, face_size, is_dome_map,
                   base_unit_size, final_image, pasted, removed, result, answers, vmats>>

(***************************************************************************)
(* stitch_cubemap_rotated(file_map, FINAL_OUTPUT_PATH, OUTPUT_DIR).        *)
(***************************************************************************)
\* the files of OUTPUT_DIR after os.remove of each of `names`: gone when the removal
\* works, left when it raises (the exception is swallowed or logged)
AfterRemove(files, names, works) ==
    IF works THEN [n \in (DOMAIN files) \ names |-> files[n]] ELSE files

\* a face-count check that only stops on an empty map
StitchBeginUnlessEmpty ==
    /\ pc = "stitch"
    /\ IF Cardinality(DOMAIN file_map) = 0
       THEN /\ result' = "False"
            /\ pc' = "returned"
            /\ idx' = idx
       ELSE /\ result' = result
            /\ pc' = "convert"
            /\ idx' = 1
    /\ png_paths_map' = EmptyMap
    /\ temp_files' = <<>>
    /\ face_source_info' = EmptyMap
    /\ UNCHANGED <<listing, srcfiles, outfiles, EXR_SUPPORT_ENABLED, file_map, report,
                   order, images, face_size, is_dome_map, base_unit_size, final_image,
                   pasted, removed, answers, vmats>>

\* the face-count check
StitchBegin ==
    /\ pc = "stitch"
    /\ IF Cardinality(DOMAIN file_map) # 6
       THEN /\ result' = "False"
            /\ pc' = "returned"
            /\ idx' = idx
       ELSE /\ result' = result
            /\ pc' = "convert"
            /\ idx' = 1
    /\ png_paths_map' = EmptyMap
    /\ temp_files' = <<>>
    /\ face_source_info' = EmptyMap
    /\ UNCHANGED <<listing, srcfiles, outfiles, EXR_SUPPORT_ENABLED, file_map, report,
                   order, images, face_size, is_dome_map, base_unit_size, final_image,
                   pasted, removed, answers, vmats>>

\* the decoded source saved as a temporary PNG, recorded for loading and for removal
Converted(face, path) ==
    /\ outfiles' = Put(outfiles, TempName(path),
                       Raster(path, srcfiles[path].w, srcfiles[path].h))
    /\ png_paths_map' = Put(png_paths_map, face, [dir |-> "out", name |-> TempName(path)])
    /\ temp_files' = Append(temp_files, TempName(path))

\* a VTF face: convert_vtf_to_png, which raises when the decode fails
ConvertVtf(face, path) ==
    /\ EndsWith(Lower(path), ExtVtf)
    /\ \/ /\ Converted(face, path)
          /\ face_source_info' = Put(face_source_info, face, "default")
          /\ pc' = IF idx = Len(order) THEN "load" ELSE "convert"
          /\ idx' = idx + 1
          /\ UNCHANGED <<removed, result>>
       \/ /\ \E works \in BOOLEAN :
                outfiles' = AfterRemove(outfiles, Range(temp_files), works)
          /\ removed' = removed \cup Range(temp_files)
          /\ result' = "False"
          /\ pc' = "returned"
          /\ UNCHANGED <<png_paths_map, temp_files, face_source_info, idx>>

\* an EXR face: refused without openexr_numpy, else convert_exr_to_png, which
\* returns False when the decode fails
ConvertExr(face, path) ==
    /\ ~EndsWith(Lower(path), ExtVtf)
    /\ EndsWith(Lower(path), ExtExr)
    /\ \/ /\ EXR_SUPPORT_ENABLED
          /\ Converted(face, path)
          /\ face_source_info' = Put(face_source_info, face, "exr")
          /\ pc' = IF idx = Len(order) THEN "load" ELSE "convert"
          /\ idx' = idx + 1
          /\ UNCHANGED <<removed, result>>
       \/ /\ result' = "False"
          /\ pc' = "returned"
          /\ UNCHANGED <<outfiles, png_paths_map, temp_files, face_source_info, idx,
                         removed>>

\* any other format is loaded directly
ConvertNone(face, path) ==
    /\ ~EndsWith(Lower(path), ExtVtf)
    /\ ~EndsWith(Lower(path), ExtExr)
    /\ png_paths_map' = Put(png_paths_map, face, [dir |-> "in", name |-> path])
    /\ face_source_info' = Put(face_source_info, face, "default")
    /\ pc' = IF idx = Len(order) THEN "load" ELSE "convert"
    /\ idx' = idx + 1
    /\ UNCHANGED <<outfiles, temp_files, removed, result>>

\* one pass of the conversion loop
ConvertFace ==
    /\ pc = "convert"
    /\ LET face == order[idx]
           path == file_map[face]
       IN  \/ ConvertVtf(face, path)
           \/ ConvertExr(face, path)
           \/ ConvertNone(face, path)
    /\ UNCHANGED <<listing, srcfiles, EXR_SUPPORT_ENABLED, file_map, report, order,
                   images, face_size, is_dome_map, base_unit_size, final_image, pasted,
                   answers, vmats>>

\* Image.open(path).convert("RGBA")
OpenImage(p) ==
    IF p.dir = "out" THEN outfiles[p.name]
    ELSE Raster(p.name, srcfiles[p.name].w, srcfiles[p.name].h)

\* a test of the width alone
IsWideEnough(w, h) == w >= MIN_SIZE

\* w >= MIN_SIZE and h >= MIN_SIZE
IsValidSize(w, h) == w >= MIN_SIZE /\ h >= MIN_SIZE

\* valid_sizes: the sizes of the loaded images, in dict order, that are not placeholders
ValidSizes(imgs, dict_order) ==
    LET sizes == [i \in 1..Len(dict_order) |-> <<imgs[dict_order[i]].w, imgs[dict_order[i]].h>>]
    IN  SelectSeq(sizes, LAMBDA sz : IsValidSize(sz[1], sz[2]))

\* max(valid_sizes, key=area): the first of the largest
LargestSize(valid_sizes) ==
    valid_sizes[CHOOSE i \in 1..Len(valid_sizes) :
        /\ \A j \in 1..Len(valid_sizes) :
              valid_sizes[j][1] * valid_sizes[j][2] <= valid_sizes[i][1] * valid_sizes[i][2]
        /\ \A j \in 1..(i - 1) :
              valid_sizes[j][1] * valid_sizes[j][2] < valid_sizes[i][1] * valid_sizes[i][2]]

\* the front image's size, with no fallback
FrontFaceSize(imgs, valid_sizes) == <<imgs["front"].w, imgs["front"].h>>

\* the base face size: the front image's, or the largest valid one when the front
\* image is a placeholder
BaseFaceSize(imgs, valid_sizes) ==
    IF imgs["front"].w < MIN_SIZE \/ imgs["front"].h < MIN_SIZE
    THEN LargestSize(valid_sizes)
    ELSE <<imgs["front"].w, imgs["front"].h>>

\* a test that takes the bounds themselves for a dome: 1.9 <= ratio <= 2.1
IsDomeRatioInclusive(face_width, face_height) ==
    19 * face_height <= 10 * face_width /\ 10 * face_width <= 21 * face_height

\* 1.9 < face_width / face_height < 2.1
IsDomeRatio(face_width, face_height) ==
    19 * face_height < 10 * face_width /\ 10 * face_width < 21 * face_height

\* the except branch of the loading block
LoadFailed ==
    /\ \E works \in BOOLEAN :
          outfiles' = AfterRemove(outfiles, Range(temp_files), works)
    /\ removed' = removed \cup Range(temp_files)
    /\ result' = "False"
    /\ pc' = "returned"

\* the loading and sizing block
LoadImages ==
    /\ pc = "load"
    /\ \/ \* Image.open raises
          /\ LoadFailed
          /\ UNCHANGED <<images, face_size, is_dome_map>>
       \/ LET imgs == [f \in DOMAIN png_paths_map |-> OpenImage(png_paths_map[f])]
              valid_sizes == ValidSizes(imgs, order)
          IN  /\ images' = imgs
              /\ IF valid_sizes = <<>>
                 THEN /\ LoadFailed
                      /\ UNCHANGED <<face_size, is_dome_map>>
                 ELSE /\ face_size' = BaseFaceSize(imgs, valid_sizes)
                      /\ is_dome_map' = IsDomeRatio(face_size'[1], face_size'[2])
                      /\ pc' = "canvas"
                      /\ UNCHANGED <<outfiles, removed, result>>
    /\ UNCHANGED <<listing, srcfiles, EXR_SUPPORT_ENABLED, file_map, report, order, idx,
                   png_paths_map, temp_files, face_source_info, base_unit_size,
                   final_image, pasted, answers, vmats>>

\* base_unit_size
BaseUnitSize(dome, face_width, face_height) == IF dome THEN face_height ELSE face_width

\* COORDS[slot], in units
SlotCell ==
    [up |-> <<1, 0>>, left |-> <<0, 1>>, front |-> <<1, 1>>, right |-> <<2, 1>>,
     back |-> <<3, 1>>, down |-> <<1, 2>>]
COORDS(unit, slot) == <<unit * SlotCell[slot][1], unit * SlotCell[slot][2]>>

\* a canvas created opaque black
NewBlackCanvas(unit) == Solid(unit * 4, unit * 3, "black")

\* Image.new('RGBA', (final_width, final_height), (0, 0, 0, 0))
NewCanvas(unit) == Solid(unit * 4, unit * 3, "clear")

MakeCanvas ==
    /\ pc = "canvas"
    /\ base_unit_size' = BaseUnitSize(is_dome_map, face_size[1], face_size[2])
    /\ final_image' = NewCanvas(base_unit_size')
    /\ idx' = 1
    /\ pc' = "paste"
    /\ UNCHANGED <<listing, srcfiles, outfiles, EXR_SUPPORT_ENABLED, file_map, report,
                   order, png_paths_map, temp_files, face_source_info, images, face_size,
                   is_dome_map, pasted, removed, result, answers, vmats>>


\* a selection in which the dome table wins over the EXR table
SelectDomeFirst(source_format, dome) ==
    IF dome THEN "HL2_TF2_DOME_TRANSFORMS"
    ELSE IF source_format = "exr" THEN "EXR_TRANSFORMS"
    ELSE "DEFAULT_TRANSFORMS"

\* the table a slot uses, by the source format recorded for the slot's own face
SelectTransformMap(source_format, dome) ==
    IF source_format = "exr" THEN "EXR_TRANSFORMS"
    ELSE IF dome THEN "HL2_TF2_DOME_TRANSFORMS"
    ELSE "DEFAULT_TRANSFORMS"

TransformMap(config_name) ==
    CASE config_name = "EXR_TRANSFORMS" -> EXR_TRANSFORMS
      [] config_name = "HL2_TF2_DOME_TRANSFORMS" -> HL2_TF2_DOME_TRANSFORMS
      [] config_name = "DEFAULT_TRANSFORMS" -> DEFAULT_TRANSFORMS

\* transform_map.get(target_slot, (target_slot, 0, None))
TransformRule(transform_map, target_slot) ==
    IF target_slot \in DOMAIN transform_map THEN transform_map[target_slot]
    ELSE <<target_slot, 0, NoFlip>>

\* face_source_info.get(target_slot, 'default')
SourceFormat(info, target_slot) ==
    IF target_slot \in DOMAIN info THEN info[target_slot] ELSE "default"

\* the test that replaces an image by a black square
IsPlaceholderImage(img) == img.w < MIN_SIZE

HorizontalSlots == {"left", "front", "right", "back"}

\* a step 2a that puts the halved dome face at the bottom of the black square
PreProcessDomeAtBottom(img, unit, dome, target_slot) ==
    IF img.w < MIN_SIZE THEN Solid(unit, unit, "black")
    ELSE IF dome /\ target_slot \in {"left", "front", "right", "back"}
         THEN PasteOnto(Solid(unit, unit, "black"), Resize(img, unit, unit \div 2),
                        0, unit - unit \div 2)
         ELSE Resize(img, unit, unit)

\* a step 2a that leaves a raster at its own size
PreProcessUnscaled(img, unit, dome, target_slot) ==
    IF img.w < MIN_SIZE THEN Solid(unit, unit, "black") ELSE img

\* step 2a: the image brought to the slot's size
PreProcess(img, unit, dome, target_slot) ==
    IF IsPlaceholderImage(img) THEN Solid(unit, unit, "black")
    ELSE IF dome /\ target_slot \in HorizontalSlots
         THEN PasteOnto(Solid(unit, unit, "black"), Resize(img, unit, unit \div 2), 0, 0)
         ELSE Resize(img, unit, unit)

\* step 2b: rotation, then flip
ApplyTransform(img, rotation_degrees, flip) ==
    LET rotated == IF rotation_degrees # 0 THEN Rotate(img, rotation_degrees) ELSE img
    IN  IF flip # NoFlip THEN Transpose(rotated, flip) ELSE rotated

\* one pass of the loop over TARGET_SLOTS
PasteSlot ==
    /\ pc = "paste"
    /\ LET target_slot == TARGET_SLOTS[idx]
           source_format == SourceFormat(face_source_info, target_slot)
           config_name == SelectTransformMap(source_format, is_dome_map)
           rule == TransformRule(TransformMap(config_name), target_slot)
           image_to_paste ==
               ApplyTransform(
                   PreProcess(images[rule[1]], base_unit_size, is_dome_map, target_slot),
                   rule[2], rule[3])
           position == COORDS(base_unit_size, target_slot)
       IN  /\ final_image' = PasteOnto(final_image, image_to_paste, position[1], position[2])
           /\ pasted' = Put(pasted, target_slot,
                            [source_face |-> rule[1], rotation |-> rule[2],
                             flip |-> rule[3], config |-> config_name,
                             format |-> source_format,
                             w |-> image_to_paste.w, h |-> image_to_paste.h,
                             x |-> position[1], y |-> position[2]])
    /\ pc' = IF idx = Len(TARGET_SLOTS) THEN "save" ELSE "paste"
    /\ idx' = idx + 1
    /\ UNCHANGED <<listing, srcfiles, outfiles, EXR_SUPPORT_ENABLED, file_map, report,
                   order, png_paths_map, temp_files, face_source_info, images, face_size,
                   is_dome_map, base_unit_size, removed, result, answers, vmats>>

\* final_image.save(output_file_path), then the removal of the temporary files; a
\* save that raises is caught nowhere and ends the script
Save ==
    /\ pc = "save"
    /\ \/ /\ \E works \in BOOLEAN :
                outfiles' = Put(AfterRemove(outfiles, Range(temp_files), works),
                                FinalOutputName(file_map, order), final_image)
          /\ removed' = removed \cup Range(temp_files)
          /\ result' = "True"
          /\ pc' = "returned"
       \/ /\ result' = "raised"
          /\ pc' = "crashed"
          /\ UNCHANGED <<outfiles, removed>>
    /\ UNCHANGED <<listing, srcfiles, EXR_SUPPORT_ENABLED, file_map, report, order, idx,
                   png_paths_map, temp_files, face_source_info, images, face_size,
                   is_dome_map, base_unit_size, final_image, pasted, answers, vmats>>

(***************************************************************************)
(* __main__, after stitching.                                              *)
(***************************************************************************)
Answers == {"y", "n", "error"}

\* stitch_cubemap_rotated has returned: its local variables are gone
DropLocals ==
    /\ idx' = 0
    /\ png_paths_map' = EmptyMap
    /\ temp_files' = <<>>
    /\ face_source_info' = EmptyMap
    /\ images' = EmptyMap
    /\ face_size' = <<0, 0>>
    /\ is_dome_map' = FALSE
    /\ base_unit_size' = 0
    /\ final_image' = NoImage
    /\ pasted' = EmptyMap

\* create_vmat_file_optionally: two prompts, a file for each yes
CreateVmat ==
    /\ pc = "returned"
    /\ result = "True"
    /\ \E a1 \in Answers, a2 \in Answers :
          /\ answers' = <<a1, a2>>
          /\ vmats' = {m \in {"skybox", "moondome"} :
                          \/ m = "skybox" /\ a1 = "y"
                          \/ m = "moondome" /\ a2 = "y"}
    /\ pc' = "cleanup"
    /\ DropLocals
    /\ UNCHANGED <<listing, srcfiles, outfiles, EXR_SUPPORT_ENABLED, file_map, report,
                   order, removed, result>>

\* files_to_delete: the image files of the map, and the .vmt beside each .vtf
FilesToDelete(filenames_map) ==
    LET paths == {filenames_map[f] : f \in DOMAIN filenames_map}
    IN  {p \in paths : EndsWithAny(Lower(p), IMAGE_EXTENSIONS)}
        \cup ({SplitExt(p)[1] \o ExtVmt : p \in {q \in paths : EndsWith(Lower(q), ExtVtf)}}
              \cap DOMAIN srcfiles)

\* a cleanup that removes the sources whatever the answer
CleanUpWhateverTheAnswer ==
    /\ pc = "cleanup"
    /\ IF FilesToDelete(file_map) = {}
       THEN UNCHANGED <<answers, srcfiles>>
       ELSE \E a \in Answers :
               /\ answers' = Append(answers, a)
               /\ \E works \in BOOLEAN :
                     srcfiles' = AfterRemove(srcfiles, FilesToDelete(file_map), works)
    /\ pc' = "exit"
    /\ UNCHANGED <<listing, outfiles, EXR_SUPPORT_ENABLED, file_map, report, order, idx,
                   png_paths_map, temp_files, face_source_info, images, face_size,
                   is_dome_map, base_unit_size, final_image, pasted, removed, result,
                   vmats>>

\* clean_up_source_files: one prompt, the sources removed on yes
CleanUpSourceFiles ==
    /\ pc = "cleanup"
    /\ IF FilesToDelete(file_map) = {}
       THEN UNCHANGED <<answers, srcfiles>>
       ELSE \E a \in Answers :
               /\ answers' = Append(answers, a)
               /\ IF a = "y"
                  THEN \E works \in BOOLEAN :
                          srcfiles' = AfterRemove(srcfiles, FilesToDelete(file_map), works)
                  ELSE srcfiles' = srcfiles
    /\ pc' = "exit"
    /\ UNCHANGED <<listing, outfiles, EXR_SUPPORT_ENABLED, file_map, report, order, idx,
                   png_paths_map, temp_files, face_source_info, images, face_size,
                   is_dome_map, base_unit_size, final_image, pasted, removed, result,
                   vmats>>

\* the failure banner: nothing is prompted, nothing is removed
ExitFailed ==
    /\ pc = "returned"
    /\ result = "False"
    /\ pc' = "exit"
    /\ DropLocals
    /\ UNCHANGED <<listing, srcfiles, outfiles, EXR_SUPPORT_ENABLED, file_map, report,
                   order, removed, result, answers, vmats>>

Next ==
    \/ Find
    \/ StitchBegin
    \/ ConvertFace
    \/ LoadImages
    \/ MakeCanvas
    \/ PasteSlot
    \/ Save
    \/ CreateVmat
    \/ CleanUpSourceFiles
    \/ ExitFailed

Spec == Init /\ [][Next]_vars


(***************************************************************************)
(* The properties.                                                         *)
(***************************************************************************)
\* every slot has been pasted and the image is about to be saved
AllPasted == pc = "save"

\* stitch_cubemap_rotated has returned (its locals still stand as it left them)
Returned == pc = "returned"

\* the cells of the 4x3 grid that no slot uses
UnusedCells == ((0..3) \X (0..2)) \ {SlotCell[s] : s \in DOMAIN SlotCell}

\* all six loaded faces are valid squares of one side
EqualSquareFaces ==
    /\ DOMAIN images = REQUIRED_FACES
    /\ \E side \in ValidSides :
          \A f \in REQUIRED_FACES : images[f].w = side /\ images[f].h = side

\* C1: with six valid faces of one square size S the atlas is exactly 4S x 3S and,
\* after the six pastes, every pixel of the six cells no slot uses is still
\* transparent.
C1_AtlasSizeAndUnusedCells ==
    (AllPasted /\ EqualSquareFaces) =>
        LET side == images["front"].w
        IN  /\ final_image.w = 4 * side
            /\ final_image.h = 3 * side
            /\ \A c \in UnusedCells : \A x \in 0..(side - 1), y \in 0..(side - 1) :
                  PixelOf(final_image, c[1] * side + x, c[2] * side + y) = ClearPixel

C1_Witness == AllPasted /\ EqualSquareFaces /\ Cardinality(DOMAIN pasted) = 6


\* the file of the listing named for a face (s_up, s_dn, ...), if there is one
NamedFor(face) == {n \in Range(listing) : SplitExt(n)[1] = <<"s", "_">> \o ShortKeyword(face)}

\* C2: when only five of the six faces are resolved, find_cubemap_files reports
\* exactly the face no file is named for, stitch_cubemap_rotated returns False at the
\* face-count check, no conversion is made and OUTPUT_DIR receives no file.
C2_FiveFacesFail ==
    (pc # "start" /\ Cardinality(DOMAIN file_map) = 5) =>
        /\ Cardinality(report.missing) = 1
        /\ \A f \in REQUIRED_FACES : f \in report.missing <=> NamedFor(f) = {}
        /\ pc \in {"stitch", "returned", "exit"}
        /\ pc \in {"returned", "exit"} => result = "False"
        /\ temp_files = <<>>
        /\ png_paths_map = EmptyMap
        /\ outfiles = EmptyMap

C2_Witness ==
    /\ pc = "returned"
    /\ result = "False"
    /\ Cardinality(DOMAIN file_map) = 5
    /\ Cardinality(report.missing) = 1

\* the listing is six files s_up, s_dn, s_bk, s_ft, s_lf, s_rt in standard raster
\* formats, their rasters valid squares of one side
StandardSquareFaces ==
    /\ Len(listing) = 6
    /\ \A n \in Range(listing) :
          /\ n \in DOMAIN srcfiles
          /\ srcfiles[n].w = srcfiles[n].h
          /\ srcfiles[n].w \in ValidSides
          /\ \A m \in Range(listing) : m \in DOMAIN srcfiles /\ srcfiles[m].w = srcfiles[n].w
          /\ ~EndsWith(Lower(n), ExtVtf) /\ ~EndsWith(Lower(n), ExtExr)
    /\ \A f \in REQUIRED_FACES : Cardinality(NamedFor(f)) = 1

\* find_cubemap_files has just returned
Resolved == pc = "stitch"

\* the unit size and the shape are established
Sized == pc \in {"paste", "save"} \/ (pc = "returned" /\ result = "True")

\* C3: for six equal-size square standard-raster faces named up, dn, bk, ft, lf, rt
\* every face resolves to its own file, the unit size is the face side, the shape is
\* square, and each pixel of the front cell is the same pixel of the rt file (no
\* rotation, no flip, no resampling).
C3_StandardSquareScenario ==
    ((Resolved \/ Sized) /\ StandardSquareFaces) =>
        LET side == srcfiles[listing[1]].w
            rt == CHOOSE n \in NamedFor("right") : TRUE
        IN  /\ Resolved =>
                  /\ DOMAIN file_map = REQUIRED_FACES
                  /\ \A f \in REQUIRED_FACES : file_map[f] \in NamedFor(f)
            /\ Sized => base_unit_size = side /\ ~is_dome_map
            /\ AllPasted =>
                  \A x \in 0..(side - 1), y \in 0..(side - 1) :
                      PixelOf(final_image, side + x, side + y) = SourcePixel(rt, x, y)

C3_Witness == StandardSquareFaces /\ AllPasted /\ pasted["front"].source_face = "right"

\* the cell of a slot is solid opaque black
BlackCell(slot) ==
    \A x \in 0..(base_unit_size - 1), y \in 0..(base_unit_size - 1) :
        PixelOf(final_image, COORDS(base_unit_size, slot)[1] + x,
                COORDS(base_unit_size, slot)[2] + y) = BlackPixel

\* C4, as claimed: a face whose raster has a width or a height below 64 leaves a
\* solid opaque black square in the slot that uses it.
C4_PlaceholderIsBlack ==
    AllPasted =>
        \A slot \in DOMAIN pasted :
            LET img == images[pasted[slot].source_face]
            IN  (img.w < MIN_SIZE \/ img.h < MIN_SIZE) => BlackCell(slot)

\* the four horizontal faces are valid rasters of one 2:1 size
DomeFaces ==
    /\ DOMAIN images = REQUIRED_FACES
    /\ \A f \in HorizontalSlots :
          /\ IsValidSize(images[f].w, images[f].h)
          /\ IsDomeRatio(images[f].w, images[f].h)
          /\ images[f].w = images["front"].w /\ images[f].h = images["front"].h

\* the rows of a slot's cell from the middle down are solid opaque black
BlackBottomHalf(slot) ==
    \A x \in 0..(base_unit_size - 1), y \in 0..(base_unit_size - 1) :
        2 * y >= base_unit_size =>
            PixelOf(final_image, COORDS(base_unit_size, slot)[1] + x,
                    COORDS(base_unit_size, slot)[2] + y) = BlackPixel

StitchOver == pc \in {"returned", "crashed"}

\* C6, as claimed: a run that fails at any stage returns False to its caller, never
\* ends in an uncaught exception, and leaves no atlas at the output path.
C6_FailureReturnsFalse ==
    /\ pc # "crashed"
    /\ result # "raised"
    /\ (StitchOver /\ result = "False") =>
          FinalOutputName(file_map, order) \notin DOMAIN outfiles

\* C7, as claimed: when stitch_cubemap_rotated is over, by any exit, the removal of
\* every temporary converted file it created has been attempted.
C7_TempFilesRemovedOnExit ==
    StitchOver => Range(temp_files) \subseteq removed

\* the table the claimed precedence gives a slot, from the extension of the slot's
\* own file and the topology
ExpectedConfig(slot) ==
    IF EndsWith(Lower(file_map[slot]), ExtExr) THEN "EXR_TRANSFORMS"
    ELSE IF is_dome_map THEN "HL2_TF2_DOME_TRANSFORMS"
    ELSE "DEFAULT_TRANSFORMS"

C9_UnitSizeAtLeastMin ==
    (Sized /\ \E f \in DOMAIN images : IsValidSize(images[f].w, images[f].h)) =>
        /\ base_unit_size >= MIN_SIZE
        /\ final_image.w = 4 * base_unit_size
        /\ final_image.h = 3 * base_unit_size
        /\ \A slot \in DOMAIN pasted :
              /\ pasted[slot].x = base_unit_size * SlotCell[slot][1]
              /\ pasted[slot].y = base_unit_size * SlotCell[slot][2]

\* the front face is a placeholder, the largest valid face is a dome face
C9_Witness ==
    /\ AllPasted
    /\ ~IsValidSize(images["front"].w, images["front"].h)
    /\ is_dome_map
    /\ base_unit_size >= MIN_SIZE

\* the place of a file's extension in IMAGE_EXTENSIONS, 0 for no image extension
ExtRank(name) ==
    LET lowered == Lower(name)
        ranks == {e \in 1..Len(IMAGE_EXTENSIONS) : EndsWith(lowered, IMAGE_EXTENSIONS[e])}
    IN  IF ranks = {} THEN 0 ELSE CHOOSE e \in ranks : \A z \in ranks : e <= z

\* the listed image files whose name before the extension ends with a keyword of the face
Candidates(face) ==
    {n \in Range(listing) :
        /\ \E k \in 1..Len(FACE_KEYWORDS[face]) :
              EndsWith(SplitExt(Lower(n))[1], FACE_KEYWORDS[face][k])
        /\ ExtRank(n) > 0}

\* C10: among the files that match a face, the resolved one has the extension that
\* comes first in (.vtf, .png, .jpg, .jpeg, .tga, .hdr, .exr), in whatever order the
\* directory lists them.
C10_ExtensionPriority ==
    Resolved =>
        \A face \in REQUIRED_FACES :
            LET candidates == Candidates(face)
            IN  candidates # {} =>
                    /\ face \in DOMAIN file_map
                    /\ file_map[face] \in candidates
                    /\ LET best == ExtRank(file_map[face])
                       IN  \A n \in candidates : best <= ExtRank(n)

\* a file of a later extension is listed before the resolved one
C10_Witness ==
    /\ Resolved
    /\ \E face \in DOMAIN file_map : \E i, j \in 1..Len(listing) :
          /\ i < j
          /\ listing[j] = file_map[face]
          /\ listing[i] \in Candidates(face)
          /\ ExtRank(listing[i]) > ExtRank(listing[j])

(***************************************************************************)
(* Step 2b on its own: one square image, one rotation, one flip constant.  *)
(***************************************************************************)
\* the rotations and the flip constants the tables may name
Rotations == {0, 90, -90, 180}
FlipConstants == {NoFlip, "FLIP_LEFT_RIGHT", "FLIP_TOP_BOTTOM", "ROTATE_180"}

\* the square images step 2a hands to step 2b, of side unit: a loaded raster of that
\* size, a resampled raster, the black square of a placeholder, a dome face on black
SlotSquares(unit) ==
    {Raster(FaceFile("up", ExtPng), unit, unit),
     Resize(Raster(FaceFile("up", ExtPng), unit + 1, unit + 1), unit, unit),
     Solid(unit, unit, "black"),
     PasteOnto(Solid(unit, unit, "black"),
               Resize(Raster(FaceFile("front", ExtPng), 2 * unit, unit), unit, unit \div 2),
               0, 0)}

TransformInit ==
    /\ pc = "transform"
    /\ \E unit \in 1..MaxSide : \E square \in SlotSquares(unit) :
          /\ images = [up |-> square]
          /\ base_unit_size = unit
    /\ listing = <<>>
    /\ srcfiles = EmptyMap
    /\ outfiles = EmptyMap
    /\ EXR_SUPPORT_ENABLED = TRUE
    /\ file_map = EmptyMap
    /\ report = [missing |-> {}, vmt |-> {}]
    /\ order = FaceOrder
    /\ idx = 0
    /\ png_paths_map = EmptyMap
    /\ temp_files = <<>>
    /\ face_source_info = EmptyMap
    /\ face_size = <<0, 0>>
    /\ is_dome_map = FALSE
    /\ final_image = NoImage
    /\ pasted = EmptyMap
    /\ removed = {}
    /\ result = "none"
    /\ answers = <<>>
    /\ vmats = {}

\* step 2b applied to the square with one rule
TransformStep ==
    /\ pc = "transform"
    /\ \E rotation_degrees \in Rotations, flip \in FlipConstants :
          /\ final_image' = ApplyTransform(images["up"], rotation_degrees, flip)
          /\ pasted' = [up |-> [rotation |-> rotation_degrees, flip |-> flip]]
    /\ pc' = "transformed"
    /\ UNCHANGED <<listing, srcfiles, outfiles, EXR_SUPPORT_ENABLED, file_map, report,
                   order, idx, png_paths_map, temp_files, face_source_info, images,
                   face_size, is_dome_map, base_unit_size, removed, result, answers,
                   vmats>>

TransformNext == TransformStep

TransformSpec == TransformInit /\ [][TransformNext]_vars

\* two images have the same size and the same pixels
SamePixels(a, b) ==
    /\ a.w = b.w
    /\ a.h = b.h
    /\ \A x \in 0..(a.w - 1), y \in 0..(a.h - 1) : PixelOf(a, x, y) = PixelOf(b, x, y)

AllPlaceholders ==
    /\ DOMAIN file_map = REQUIRED_FACES
    /\ \A f \in REQUIRED_FACES :
          /\ file_map[f] \in DOMAIN srcfiles
          /\ srcfiles[file_map[f]].w < MIN_SIZE \/ srcfiles[file_map[f]].h < MIN_SIZE

\* C12: when each of the six rasters has a width or a height below 64 the run never
\* gets past the loading block: stitch_cubemap_rotated returns False, no canvas is
\* created and no atlas is written.
C12_AllPlaceholdersFail ==
    (pc # "start" /\ AllPlaceholders) =>
        /\ pc \in {"stitch", "convert", "load", "returned", "exit"}
        /\ pc \in {"returned", "exit"} => result = "False"
        /\ final_image = NoImage
        /\ base_unit_size = 0
        /\ pasted = EmptyMap
        /\ FinalOutputName(file_map, order) \notin DOMAIN outfiles

\* six placeholders were loaded, one of them 64 wide, and the loading block gave up
C12_Witness ==
    /\ Returned
    /\ result = "False"
    /\ AllPlaceholders
    /\ DOMAIN images = REQUIRED_FACES
    /\ \E f \in REQUIRED_FACES : images[f].w >= MIN_SIZE /\ images[f].h < MIN_SIZE

\* the sizes of the loaded rasters whose width and height are both at least 64
ValidRasterSizes ==
    {<<images[f].w, images[f].h>> : f \in {g \in DOMAIN images :
                                             images[g].w >= 64 /\ images[g].h >= 64}}

\* C13: the reference size is the front raster's when its width and height are both
\* at least 64, else that of a largest-area raster among those with both at least 64;
\* the shape is dome exactly when 1.9 < width / height < 2.1 of the reference; the
\* unit size is the reference height when dome and the reference width otherwise.
C13_SizeInference ==
    Sized =>
        LET front == <<images["front"].w, images["front"].h>>
        IN  /\ (front[1] >= 64 /\ front[2] >= 64) => face_size = front
            /\ (front[1] < 64 \/ front[2] < 64) =>
                  /\ face_size \in ValidRasterSizes
                  /\ \A sz \in ValidRasterSizes :
                        sz[1] * sz[2] <= face_size[1] * face_size[2]
            /\ is_dome_map <=> /\ 10 * face_size[1] > 19 * face_size[2]
                               /\ 10 * face_size[1] < 21 * face_size[2]
            /\ is_dome_map => base_unit_size = face_size[2]
            /\ ~is_dome_map => base_unit_size = face_size[1]

\* the front raster is a placeholder and the valid rasters are of two areas: the
\* larger one, a 2:1 raster, is the reference and its height the unit
C13_Witness ==
    /\ Sized
    /\ images["front"].w < 64
    /\ Cardinality({sz[1] * sz[2] : sz \in ValidRasterSizes}) > 1
    /\ face_size[1] = 2 * face_size[2]
    /\ is_dome_map
    /\ base_unit_size = face_size[2]

\* the image the loop pastes into a slot: table, rule, step 2a, step 2b
SlotImage(target_slot) ==
    LET source_format == SourceFormat(face_source_info, target_slot)
        config_name == SelectTransformMap(source_format, is_dome_map)
        rule == TransformRule(TransformMap(config_name), target_slot)
    IN  ApplyTransform(
            PreProcess(images[rule[1]], base_unit_size, is_dome_map, target_slot),
            rule[2], rule[3])

\* the atlas the loop builds on `canvas` when it takes the slots in the order `slots`
\* and pastes slot_images[slot] into each
RECURSIVE StitchInOrder(_, _, _)
StitchInOrder(canvas, slot_images, slots) ==
    IF slots = <<>> THEN canvas
    ELSE LET position == COORDS(base_unit_size, Head(slots))
         IN  StitchInOrder(PasteOnto(canvas, slot_images[Head(slots)],
                                     position[1], position[2]),
                           slot_images, Tail(slots))

\* every order the six slots can be taken in
SlotOrders ==
    {o \in [1..Len(TARGET_SLOTS) -> Range(TARGET_SLOTS)] :
        Cardinality(Range(o)) = Len(TARGET_SLOTS)}

\* what has been pasted on a canvas: each image with its position
RECURSIVE Pastes(_)
Pastes(img) ==
    IF img.kind = "paste"
    THEN {[top |-> img.top, x |-> img.x, y |-> img.y]} \cup Pastes(img.base)
    ELSE {}

\* the canvas under everything pasted
RECURSIVE Ground(_)
Ground(img) == IF img.kind = "paste" THEN Ground(img.base) ELSE img

\* two pasted images share a pixel of the canvas
Overlap(a, b) ==
    /\ a.x < b.x + b.top.w /\ b.x < a.x + a.top.w
    /\ a.y < b.y + b.top.h /\ b.y < a.y + a.top.h

\* the corner pixels of the twelve cells
CornerPixels ==
    {<<c[1] * base_unit_size + dx, c[2] * base_unit_size + dy>> :
        c \in (0..3) \X (0..2), dx \in {0, base_unit_size - 1}, dy \in {0, base_unit_size - 1}}

\* C14: each pasted image is exactly unit x unit at the origin of its slot's cell, no
\* two of them share a pixel, and taking the slots in any other order pastes the same
\* images at the same places on the same canvas: the same atlas.
C14_OrderIndependent ==
    AllPasted =>
        \A slot_images \in {[slot \in Range(TARGET_SLOTS) |-> SlotImage(slot)]},
           done \in {Pastes(final_image)} :
            /\ final_image = StitchInOrder(NewCanvas(base_unit_size), slot_images, TARGET_SLOTS)
            /\ \A slot \in DOMAIN pasted :
                  /\ pasted[slot].w = base_unit_size /\ pasted[slot].h = base_unit_size
                  /\ pasted[slot].x = base_unit_size * SlotCell[slot][1]
                  /\ pasted[slot].y = base_unit_size * SlotCell[slot][2]
            /\ \A a \in done, b \in done : a # b => ~Overlap(a, b)
            /\ \A a \in done :
                  /\ a.top.w = base_unit_size /\ a.top.h = base_unit_size
                  /\ a.x + a.top.w <= final_image.w /\ a.y + a.top.h <= final_image.h
            /\ \A o \in SlotOrders :
                  \A other \in {StitchInOrder(NewCanvas(base_unit_size), slot_images, o)} :
                      /\ Pastes(other) = done
                      /\ Ground(other) = Ground(final_image)
            /\ \A other \in {StitchInOrder(NewCanvas(base_unit_size), slot_images,
                                           Reverse(TARGET_SLOTS))} :
                  \A px \in CornerPixels :
                      PixelOf(other, px[1], px[2]) = PixelOf(final_image, px[1], px[2])

\* six different images were pasted, resampled ones among them
C14_Witness ==
    /\ AllPasted
    /\ Cardinality(Pastes(final_image)) = 6
    /\ Cardinality({a.top : a \in Pastes(final_image)}) = 6
    /\ \E a \in Pastes(final_image) : a.top.kind = "resized"
    /\ StitchInOrder(NewCanvas(base_unit_size),
                     [slot \in Range(TARGET_SLOTS) |-> SlotImage(slot)],
                     Reverse(TARGET_SLOTS)) # final_image

\* the atlas is in OUTPUT_DIR
AtlasWritten == FinalOutputName(file_map, order) \in DOMAIN outfiles

\* C15: a step removes source files only when the stitch has returned True, the atlas
\* is written and the answer just given to the cleanup prompt is yes, and then only
\* the files listed for deletion; a prompt is answered only after a successful stitch.
C15_CleanupGated ==
    [][/\ srcfiles' # srcfiles =>
              /\ result = "True"
              /\ AtlasWritten
              /\ Len(answers') = Len(answers) + 1
              /\ answers'[Len(answers')] = "y"
              /\ DOMAIN srcfiles' = (DOMAIN srcfiles) \ FilesToDelete(file_map)
       /\ answers' # answers => (result = "True" /\ AtlasWritten)
       /\ vmats' # vmats => (result = "True" /\ AtlasWritten)]_vars

\* the script is over after a yes to the cleanup prompt, the sources are gone, the
\* atlas is there
C15_Witness ==
    /\ pc = "exit"
    /\ result = "True"
    /\ Len(answers) = 3
    /\ answers[3] = "y"
    /\ AtlasWritten
    /\ Range(listing) # {}
    /\ \A n \in Range(listing) : n \notin DOMAIN srcfiles

\* C16, as claimed: find_cubemap_files resolves distinct faces to distinct files, for
\* every directory content and every listing order.
C16_DistinctFacesDistinctFiles ==
    Resolved =>
        \A f \in DOMAIN file_map, g \in DOMAIN file_map :
            f # g => file_map[f] # file_map[g]

\* C17, as claimed: in a successful run the six slots draw from six distinct source
\* faces, whatever the formats of the faces and the topology: each face is pasted
\* into exactly one slot.
C17_EachFaceUsedOnce ==
    (Returned /\ result = "True") =>
        /\ DOMAIN pasted = Range(TARGET_SLOTS)
        /\ \A face \in REQUIRED_FACES :
              Cardinality({slot \in DOMAIN pasted : pasted[slot].source_face = face}) = 1

====
